---------------------------- MODULE Spec2Model ----------------------------
(***************************************************************************)
(* EmailApp (11-styling/src/containers/App.js): the root component of the  *)
(* email client.  It polls GET /emails on a timer, keeps the list of       *)
(* emails and the selected email id in its state, and sends PUT, POST and  *)
(* DELETE requests whose success responses update the list.                *)
(*                                                                         *)
(* The component runs on one event loop: every handler and every promise   *)
(* callback is one atomic step.  Requests travel in `net`; the backend and *)
(* the transport answer them in any order.                                 *)
(*                                                                         *)
(* this.setState(x) is the assignment of x's keys to this.state, as the    *)
(* call site writes it, also in callbacks that run after the unmount.      *)
(* The backend and the transport are not part of App.js; they follow the   *)
(* REST contract the component consumes.                                   *)
(***************************************************************************)
EXTENDS Integers, Sequences, FiniteSets, Bags

VARIABLES
    emails,           \* this.state.emails
    selectedEmailId,  \* this.state.selectedEmailId
    mounted,          \* lifecycle of the component: "no", "yes", "gone"
    pollId,           \* this._pollId: "none", "active" (interval running), "cleared"
    net,              \* bag of requests and responses in flight
    server,           \* the backend's collection of emails
    now,              \* the last value read from the clock (Date.now())
    sent,             \* number of requests issued so far
    ev                \* the handler that ran in the last step: its name, arguments,
                      \* the requests it issued and the state keys it passed to setState

vars == <<emails, selectedEmailId, mounted, pollId, net, server, now, sent, ev>>

-----------------------------------------------------------------------------
(* Bounds of the model *)

MaxRequests == 3     \* requests issued in one behaviour
MaxInFlight == 2     \* requests and responses in flight at once

\* The values Date.now() returns, all above every id the backend assigns; the
\* clock never runs backwards.
ClockValues == {10, 11}
ClockStart == CHOOSE t \in ClockValues : \A u \in ClockValues : t <= u
Later(t) == {u \in ClockValues : u >= t}
Subjects == {"hello"}   \* contents a submitted form can carry

NoSelection == 0 - 1   \* selectedEmailId: -1

-----------------------------------------------------------------------------
(* Records and messages *)

Email(id, subject, date, unread) ==
    [id |-> id, subject |-> subject, date |-> date, unread |-> unread]

\* The backend's collection when the page is opened.
InitialServer == << Email(1, "one", 0, TRUE), Email(2, "two", 0, FALSE) >>

Msg(kind, stage, id, unread, subject, status, payload) ==
    [kind |-> kind, stage |-> stage, id |-> id, unread |-> unread,
     subject |-> subject, status |-> status, payload |-> payload]

\* fetch('http://localhost:9090/emails')
GetRequest == Msg("GET", "req", 0, FALSE, "", "-", <<>>)
\* fetch(`//localhost:9090/emails/${emailId}`, {method: 'PUT', body: {unread}})
PutRequest(emailId, unread) == Msg("PUT", "req", emailId, unread, "", "-", <<>>)
\* fetch('//localhost:9090/emails', {method: 'POST', body: newEmail})
PostRequest(newEmail) == Msg("POST", "req", 0, FALSE, newEmail.subject, "-", <<>>)
\* fetch(`//localhost:9090/emails/${emailId}`, {method: 'DELETE'})
DeleteRequest(emailId) == Msg("DELETE", "req", emailId, FALSE, "", "-", <<>>)

Send(m) == net (+) SetToBag({m})
Take(m) == net (-) SetToBag({m})
Answer(m, status, payload) == [m EXCEPT !.stage = "res", !.status = status, !.payload = payload]

InFlight == BagToSet(net)
Responses(kind) == {m \in InFlight : m.kind = kind /\ m.stage = "res"}
Requests == {m \in InFlight : m.stage = "req"}
CanSend == BagCardinality(net) < MaxInFlight /\ sent < MaxRequests

Ids(s) == {s[i].id : i \in 1..Len(s)}

\* The record of a handler run; sel is the selection the handler found.
Ev(op, id, unread, subject, payload, issued, wrote) ==
    [op |-> op, id |-> id, unread |-> unread, subject |-> subject,
     payload |-> payload, issued |-> issued, wrote |-> wrote,
     sel |-> selectedEmailId]
EnvEv == Ev("env", 0, FALSE, "", <<>>, <<>>, {})

-----------------------------------------------------------------------------
(* Pure helpers of the component *)

\* A comparison of the two array references: a parsed payload is a new array.
IsEqualByReference(a, b) == FALSE

\* A comparison of the two lengths only.
IsEqualByLength(a, b) == Len(a) = Len(b)

\* A comparison of the ids only.
IsEqualIds(a, b) ==
    /\ Len(a) = Len(b)
    /\ \A i \in 1..Len(a) : a[i].id = b[i].id

\* lodash isEqual on two arrays of plain objects: same length and, position by
\* position, the same value in every field.
IsEqual(a, b) ==
    /\ Len(a) = Len(b)
    /\ \A i \in 1..Len(a) :
          /\ a[i].id = b[i].id
          /\ a[i].subject = b[i].subject
          /\ a[i].date = b[i].date
          /\ a[i].unread = b[i].unread

\* A find whose predicate accepts every email.
findFirst(s, id) == IF s = <<>> THEN <<>> ELSE <<Head(s)>>

\* lodash find(emails, (email) => email.id === selectedEmailId): the first match,
\* as a sequence of length one, or the empty sequence for undefined.
RECURSIVE find(_, _)
find(s, id) ==
    IF s = <<>> THEN <<>>
    ELSE IF Head(s).id = id THEN <<Head(s)>>
    ELSE find(Tail(s), id)

\* A map that takes the default of the unread parameter instead of its value.
MapUnreadDefault(s, emailId, unread) ==
    [i \in 1..Len(s) |->
        IF s[i].id = emailId THEN [s[i] EXCEPT !.unread = TRUE] ELSE s[i]]

\* A map without the comparison of the ids.
MapUnreadAll(s, emailId, unread) ==
    [i \in 1..Len(s) |-> [s[i] EXCEPT !.unread = unread]]

\* this.state.emails.map((email) => email.id === emailId ? {...email, unread} : email)
MapUnread(s, emailId, unread) ==
    [i \in 1..Len(s) |->
        IF s[i].id = emailId THEN [s[i] EXCEPT !.unread = unread] ELSE s[i]]

\* A filter with the comparison inverted.
FilterOnly(s, emailId) ==
    LET keep(e) == e.id = emailId IN SelectSeq(s, keep)

\* this.state.emails.filter((email) => email.id !== emailId)
FilterOut(s, emailId) ==
    LET keep(e) == e.id # emailId IN SelectSeq(s, keep)

\* A provisional record that is not flagged unread.
NewEmailRecordRead(newEmail, t) == Email(t, newEmail.subject, t, FALSE)

\* {...newEmail, id: Date.now(), date: `${new Date()}`, unread: true}
NewEmailRecord(newEmail, t) == Email(t, newEmail.subject, t, TRUE)

\* The provisional record spread after the list instead of before it.
PutLast(e, s) == s \o <<e>>

\* [{...}, ...this.state.emails]
Prepend(e, s) == <<e>> \o s

\* EmailViewWrapper: the article with the EmailView of selectedEmail, or null.
EmailViewWrapper(selectedEmail) ==
    IF selectedEmail # <<>>
    THEN [shown |-> TRUE, email |-> selectedEmail]
    ELSE [shown |-> FALSE, email |-> <<>>]

\* render(): the detail pane for the current state.
render == EmailViewWrapper(find(emails, selectedEmailId))

-----------------------------------------------------------------------------
(* Initial state: lines 41-44, before componentDidMount *)

Init ==
    /\ emails = <<>>
    /\ selectedEmailId = NoSelection
    /\ mounted = "no"
    /\ pollId = "none"
    /\ net = EmptyBag
    /\ server = InitialServer
    /\ now = ClockStart
    /\ sent = 0
    /\ ev = Ev("constructor", 0, FALSE, "", <<>>, <<>>, {})

-----------------------------------------------------------------------------
(* Lifecycle and polling *)

\* A mount that starts the interval without the first fetch.
componentDidMountLazy ==
    /\ mounted = "no"
    /\ CanSend
    /\ mounted' = "yes"
    /\ pollId' = "active"
    /\ ev' = Ev("componentDidMount", 0, FALSE, "", <<>>, <<>>, {})
    /\ UNCHANGED <<emails, selectedEmailId, net, server, now, sent>>

componentDidMount ==
    /\ mounted = "no"
    /\ CanSend
    /\ mounted' = "yes"
    /\ net' = Send(GetRequest)
    /\ sent' = sent + 1
    /\ pollId' = "active"
    /\ ev' = Ev("componentDidMount", 0, FALSE, "", <<>>, <<GetRequest>>, {})
    /\ UNCHANGED <<emails, selectedEmailId, server, now>>

\* The setInterval callback: () => this._getUpdateEmails()
PollTick ==
    /\ pollId = "active"
    /\ CanSend
    /\ net' = Send(GetRequest)
    /\ sent' = sent + 1
    /\ ev' = Ev("pollTick", 0, FALSE, "", <<>>, <<GetRequest>>, {})
    /\ UNCHANGED <<emails, selectedEmailId, mounted, pollId, server, now>>

\* An unmount that forgets clearInterval.
componentWillUnmountLeak ==
    /\ mounted = "yes"
    /\ mounted' = "gone"
    /\ pollId' = pollId
    /\ ev' = Ev("componentWillUnmount", 0, FALSE, "", <<>>, <<>>, {})
    /\ UNCHANGED <<emails, selectedEmailId, net, server, now, sent>>

componentWillUnmount ==
    /\ mounted = "yes"
    /\ mounted' = "gone"
    /\ pollId' = "cleared"
    /\ ev' = Ev("componentWillUnmount", 0, FALSE, "", <<>>, <<>>, {})
    /\ UNCHANGED <<emails, selectedEmailId, net, server, now, sent>>

\* A then-callback that takes the payload only while the Collection is empty.
getUpdateEmailsThenFirstOnly(m) ==
    /\ m \in Responses("GET") /\ m.status = "ok"
    /\ net' = Take(m)
    /\ IF emails = <<>> /\ ~IsEqual(m.payload, emails)
       THEN /\ emails' = m.payload
            /\ ev' = Ev("getUpdateEmails.then", 0, FALSE, "", m.payload, <<>>, {"emails"})
       ELSE /\ emails' = emails
            /\ ev' = Ev("getUpdateEmails.then", 0, FALSE, "", m.payload, <<>>, {})
    /\ UNCHANGED <<selectedEmailId, mounted, pollId, server, now, sent>>

\* A then-callback that also closes the detail view of a record the payload
\* does not have.
getUpdateEmailsThenReset(m) ==
    /\ m \in Responses("GET") /\ m.status = "ok"
    /\ net' = Take(m)
    /\ IF ~IsEqual(m.payload, emails)
       THEN /\ emails' = m.payload
            /\ selectedEmailId' =
                  IF selectedEmailId \in Ids(m.payload) THEN selectedEmailId ELSE NoSelection
            /\ ev' = Ev("getUpdateEmails.then", 0, FALSE, "", m.payload, <<>>,
                        {"emails", "selectedEmailId"})
       ELSE /\ emails' = emails
            /\ selectedEmailId' = selectedEmailId
            /\ ev' = Ev("getUpdateEmails.then", 0, FALSE, "", m.payload, <<>>, {})
    /\ UNCHANGED <<mounted, pollId, server, now, sent>>

\* .then((emails) => { if (!isEqual(emails, this.state.emails)) this.setState({emails}) })
getUpdateEmailsThen(m) ==
    /\ m \in Responses("GET") /\ m.status = "ok"
    /\ net' = Take(m)
    /\ IF ~IsEqual(m.payload, emails)
       THEN /\ emails' = m.payload
            /\ ev' = Ev("getUpdateEmails.then", 0, FALSE, "", m.payload, <<>>, {"emails"})
       ELSE /\ emails' = emails
            /\ ev' = Ev("getUpdateEmails.then", 0, FALSE, "", m.payload, <<>>, {})
    /\ UNCHANGED <<selectedEmailId, mounted, pollId, server, now, sent>>

\* A catch that gives up polling after a failure.
getUpdateEmailsCatchStop(m) ==
    /\ m \in Responses("GET") /\ m.status = "error"
    /\ net' = Take(m)
    /\ pollId' = "cleared"
    /\ ev' = Ev("getUpdateEmails.catch", 0, FALSE, "", <<>>, <<>>, {})
    /\ UNCHANGED <<emails, selectedEmailId, mounted, server, now, sent>>

\* .catch((ex) => console.error(ex)) of _getUpdateEmails
getUpdateEmailsCatch(m) ==
    /\ m \in Responses("GET") /\ m.status = "error"
    /\ net' = Take(m)
    /\ ev' = Ev("getUpdateEmails.catch", 0, FALSE, "", <<>>, <<>>, {})
    /\ UNCHANGED <<emails, selectedEmailId, mounted, pollId, server, now, sent>>

-----------------------------------------------------------------------------
(* Set-unread *)

\* _setUnread(emailId, unread): the PUT request
setUnread(emailId, unread, op) ==
    /\ CanSend
    /\ net' = Send(PutRequest(emailId, unread))
    /\ sent' = sent + 1
    /\ ev' = Ev(op, emailId, unread, "", <<>>, <<PutRequest(emailId, unread)>>, {})
    /\ UNCHANGED <<emails, selectedEmailId, mounted, pollId, server, now>>

\* .then(({success}) => {...}) of _setUnread; success false throws into the catch
setUnreadThen(m) ==
    /\ m \in Responses("PUT") /\ m.status \in {"ok", "fail"}
    /\ net' = Take(m)
    /\ IF m.status = "ok"
       THEN /\ emails' = MapUnread(emails, m.id, m.unread)
            /\ ev' = Ev("setUnread.then", m.id, m.unread, "", <<>>, <<>>, {"emails"})
       ELSE /\ emails' = emails
            /\ ev' = Ev("setUnread.catch", m.id, m.unread, "", <<>>, <<>>, {})
    /\ UNCHANGED <<selectedEmailId, mounted, pollId, server, now, sent>>

\* .catch((ex) => console.error(ex)) of _setUnread, reached by a failed fetch
setUnreadCatch(m) ==
    /\ m \in Responses("PUT") /\ m.status = "error"
    /\ net' = Take(m)
    /\ ev' = Ev("setUnread.catch", m.id, m.unread, "", <<>>, <<>>, {})
    /\ UNCHANGED <<emails, selectedEmailId, mounted, pollId, server, now, sent>>

\* _handleItemMarkUnread(emailId): from a list item or from the open EmailView
handleItemMarkUnread(emailId) ==
    /\ mounted = "yes" /\ emailId \in Ids(emails)
    /\ setUnread(emailId, TRUE, "handleItemMarkUnread")

\* _handleItemMarkRead(emailId): bound to selectedEmailId in the open EmailView
handleItemMarkRead(emailId) ==
    /\ mounted = "yes" /\ render.shown /\ emailId = selectedEmailId
    /\ setUnread(emailId, FALSE, "handleItemMarkRead")

-----------------------------------------------------------------------------
(* Select and close *)

\* A select whose comparison reads the selection after the setState took effect.
handleItemSelectSync(emailId) ==
    /\ mounted = "yes" /\ emailId \in Ids(emails)
    /\ selectedEmailId' = emailId
    /\ IF selectedEmailId' # emailId
       THEN /\ CanSend
            /\ net' = Send(PutRequest(emailId, FALSE))
            /\ sent' = sent + 1
            /\ ev' = Ev("handleItemSelect", emailId, FALSE, "", <<>>,
                        <<PutRequest(emailId, FALSE)>>, {"selectedEmailId"})
       ELSE /\ net' = net
            /\ sent' = sent
            /\ ev' = Ev("handleItemSelect", emailId, FALSE, "", <<>>, <<>>,
                        {"selectedEmailId"})
    /\ UNCHANGED <<emails, mounted, pollId, server, now>>

\* _handleItemSelect(emailId): called from a click handler, so the setState is
\* batched and this.state.selectedEmailId in the comparison is the old value.
handleItemSelect(emailId) ==
    /\ mounted = "yes" /\ emailId \in Ids(emails)
    /\ selectedEmailId' = emailId
    /\ IF selectedEmailId # emailId
       THEN /\ CanSend
            /\ net' = Send(PutRequest(emailId, FALSE))
            /\ sent' = sent + 1
            /\ ev' = Ev("handleItemSelect", emailId, FALSE, "", <<>>,
                        <<PutRequest(emailId, FALSE)>>, {"selectedEmailId"})
       ELSE /\ net' = net
            /\ sent' = sent
            /\ ev' = Ev("handleItemSelect", emailId, FALSE, "", <<>>, <<>>,
                        {"selectedEmailId"})
    /\ UNCHANGED <<emails, mounted, pollId, server, now>>

\* _handleEmailViewClose(): the close button of the open EmailView
handleEmailViewClose ==
    /\ mounted = "yes" /\ render.shown
    /\ selectedEmailId' = NoSelection
    /\ ev' = Ev("handleEmailViewClose", 0, FALSE, "", <<>>, <<>>, {"selectedEmailId"})
    /\ UNCHANGED <<emails, mounted, pollId, net, server, now, sent>>

-----------------------------------------------------------------------------
(* Create *)

\* _handleFormSubmit(newEmail): the POST request
handleFormSubmit(newEmail) ==
    /\ mounted = "yes"
    /\ CanSend
    /\ net' = Send(PostRequest(newEmail))
    /\ sent' = sent + 1
    /\ ev' = Ev("handleFormSubmit", 0, FALSE, newEmail.subject, <<>>,
                <<PostRequest(newEmail)>>, {})
    /\ UNCHANGED <<emails, selectedEmailId, mounted, pollId, server, now>>

\* .then(({success}) => {...}) of _handleFormSubmit; t is the value of Date.now()
handleFormSubmitThen(m, t) ==
    /\ m \in Responses("POST") /\ m.status \in {"ok", "fail"}
    /\ t \in Later(now)
    /\ net' = Take(m)
    /\ IF m.status = "ok"
       THEN /\ emails' = Prepend(NewEmailRecord([subject |-> m.subject], t), emails)
            /\ now' = t
            /\ ev' = Ev("handleFormSubmit.then", t, TRUE, m.subject, <<>>, <<>>, {"emails"})
       ELSE /\ emails' = emails
            /\ now' = now
            /\ ev' = Ev("handleFormSubmit.catch", 0, FALSE, m.subject, <<>>, <<>>, {})
    /\ UNCHANGED <<selectedEmailId, mounted, pollId, server, sent>>

\* .catch((ex) => console.error(ex)) of _handleFormSubmit, reached by a failed fetch
handleFormSubmitCatch(m) ==
    /\ m \in Responses("POST") /\ m.status = "error"
    /\ net' = Take(m)
    /\ ev' = Ev("handleFormSubmit.catch", 0, FALSE, m.subject, <<>>, <<>>, {})
    /\ UNCHANGED <<emails, selectedEmailId, mounted, pollId, server, now, sent>>

-----------------------------------------------------------------------------
(* Delete *)

\* _handleItemDelete(emailId): the DELETE request
handleItemDelete(emailId) ==
    /\ mounted = "yes" /\ emailId \in Ids(emails)
    /\ CanSend
    /\ net' = Send(DeleteRequest(emailId))
    /\ sent' = sent + 1
    /\ ev' = Ev("handleItemDelete", emailId, FALSE, "", <<>>, <<DeleteRequest(emailId)>>, {})
    /\ UNCHANGED <<emails, selectedEmailId, mounted, pollId, server, now>>

\* A then-callback of the delete that does not look at the success flag.
handleItemDeleteThenUnchecked(m) ==
    /\ m \in Responses("DELETE") /\ m.status \in {"ok", "fail"}
    /\ net' = Take(m)
    /\ emails' = FilterOut(emails, m.id)
    /\ selectedEmailId' = NoSelection
    /\ ev' = Ev("handleItemDelete.then", m.id, FALSE, "", <<>>, <<>>,
                {"emails", "selectedEmailId"})
    /\ UNCHANGED <<mounted, pollId, server, now, sent>>

\* .then(({success}) => {...}) of _handleItemDelete
handleItemDeleteThen(m) ==
    /\ m \in Responses("DELETE") /\ m.status \in {"ok", "fail"}
    /\ net' = Take(m)
    /\ IF m.status = "ok"
       THEN /\ emails' = FilterOut(emails, m.id)
            /\ selectedEmailId' = NoSelection
            /\ ev' = Ev("handleItemDelete.then", m.id, FALSE, "", <<>>, <<>>,
                        {"emails", "selectedEmailId"})
       ELSE /\ emails' = emails
            /\ selectedEmailId' = selectedEmailId
            /\ ev' = Ev("handleItemDelete.catch", m.id, FALSE, "", <<>>, <<>>, {})
    /\ UNCHANGED <<mounted, pollId, server, now, sent>>

\* .catch((ex) => console.error(ex)) of _handleItemDelete, reached by a failed fetch
handleItemDeleteCatch(m) ==
    /\ m \in Responses("DELETE") /\ m.status = "error"
    /\ net' = Take(m)
    /\ ev' = Ev("handleItemDelete.catch", m.id, FALSE, "", <<>>, <<>>, {})
    /\ UNCHANGED <<emails, selectedEmailId, mounted, pollId, server, now, sent>>

-----------------------------------------------------------------------------
(* The backend and the transport *)

\* The backend's collection with the unread flag of the record id set.
ServerSetUnread(s, id, unread) ==
    [i \in 1..Len(s) |-> IF s[i].id = id THEN [s[i] EXCEPT !.unread = unread] ELSE s[i]]

\* The backend's collection without the record id.
ServerRemove(s, id) ==
    LET other(e) == e.id # id IN SelectSeq(s, other)

\* The id the backend gives to a new record: one it has not in use.
ServerNewId == IF server = <<>> THEN 1
               ELSE 1 + (CHOOSE x \in Ids(server) : \A y \in Ids(server) : y <= x)

\* GET /emails answers the whole collection.
ServerGet(m) ==
    /\ m \in Requests /\ m.kind = "GET"
    /\ net' = Take(m) (+) SetToBag({Answer(m, "ok", server)})
    /\ ev' = EnvEv
    /\ UNCHANGED <<emails, selectedEmailId, mounted, pollId, server, now, sent>>

\* PUT /emails/{id} sets the unread flag of the record, if the backend has it.
ServerPut(m) ==
    /\ m \in Requests /\ m.kind = "PUT"
    /\ IF m.id \in Ids(server)
       THEN /\ server' = ServerSetUnread(server, m.id, m.unread)
            /\ net' = Take(m) (+) SetToBag({Answer(m, "ok", <<>>)})
       ELSE /\ server' = server
            /\ net' = Take(m) (+) SetToBag({Answer(m, "fail", <<>>)})
    /\ ev' = EnvEv
    /\ UNCHANGED <<emails, selectedEmailId, mounted, pollId, now, sent>>

\* POST /emails stores the new record under a server-assigned id.
ServerPost(m) ==
    /\ m \in Requests /\ m.kind = "POST"
    /\ server' = <<Email(ServerNewId, m.subject, 0, TRUE)>> \o server
    /\ net' = Take(m) (+) SetToBag({Answer(m, "ok", <<>>)})
    /\ ev' = EnvEv
    /\ UNCHANGED <<emails, selectedEmailId, mounted, pollId, now, sent>>

\* DELETE /emails/{id} removes the record, if the backend has it.
ServerDelete(m) ==
    /\ m \in Requests /\ m.kind = "DELETE"
    /\ IF m.id \in Ids(server)
       THEN /\ server' = ServerRemove(server, m.id)
            /\ net' = Take(m) (+) SetToBag({Answer(m, "ok", <<>>)})
       ELSE /\ server' = server
            /\ net' = Take(m) (+) SetToBag({Answer(m, "fail", <<>>)})
    /\ ev' = EnvEv
    /\ UNCHANGED <<emails, selectedEmailId, mounted, pollId, now, sent>>

\* The request fails in transport, or its body does not parse: the fetch promise
\* (or res.json()) rejects.
TransportError(m) ==
    /\ m \in Requests
    /\ net' = Take(m) (+) SetToBag({Answer(m, "error", <<>>)})
    /\ ev' = EnvEv
    /\ UNCHANGED <<emails, selectedEmailId, mounted, pollId, server, now, sent>>

-----------------------------------------------------------------------------

Next ==
    \/ componentDidMount
    \/ PollTick
    \/ componentWillUnmount
    \/ \E m \in InFlight : getUpdateEmailsThen(m)
    \/ \E m \in InFlight : getUpdateEmailsCatch(m)
    \/ \E id \in Ids(emails) : handleItemMarkUnread(id)
    \/ \E id \in Ids(emails) : handleItemMarkRead(id)
    \/ \E m \in InFlight : setUnreadThen(m)
    \/ \E m \in InFlight : setUnreadCatch(m)
    \/ \E id \in Ids(emails) : handleItemSelect(id)
    \/ handleEmailViewClose
    \/ \E s \in Subjects : handleFormSubmit([subject |-> s])
    \/ \E m \in InFlight : \E t \in Later(now) : handleFormSubmitThen(m, t)
    \/ \E m \in InFlight : handleFormSubmitCatch(m)
    \/ \E id \in Ids(emails) : handleItemDelete(id)
    \/ \E m \in InFlight : handleItemDeleteThen(m)
    \/ \E m \in InFlight : handleItemDeleteCatch(m)
    \/ \E m \in InFlight : ServerGet(m)
    \/ \E m \in InFlight : ServerPut(m)
    \/ \E m \in InFlight : ServerPost(m)
    \/ \E m \in InFlight : ServerDelete(m)
    \/ \E m \in InFlight : TransportError(m)

Spec == Init /\ [][Next]_vars

-----------------------------------------------------------------------------
(* The component with a timer that keeps ticking *)

\* The setInterval callback once the model's budget of requests is used up: the
\* interval goes on calling _getUpdateEmails for as long as it is not cleared.
\* These ticks come one at a time, each after every response was handled.
PollTickAgain ==
    /\ pollId = "active"
    /\ sent >= MaxRequests
    /\ net = EmptyBag
    /\ net' = Send(GetRequest)
    /\ ev' = Ev("pollTick", 0, FALSE, "", <<>>, <<GetRequest>>, {})
    /\ UNCHANGED <<emails, selectedEmailId, mounted, pollId, server, now, sent>>

LiveNext == Next \/ PollTickAgain

\* The timer fires every interval, the event loop runs every callback that is
\* ready, React mounts the component, and the backend answers every request it
\* receives.
Fairness ==
    /\ WF_vars(componentDidMount)
    /\ WF_vars(PollTick)
    /\ WF_vars(PollTickAgain)
    /\ WF_vars(\E m \in InFlight : getUpdateEmailsThen(m))
    /\ WF_vars(\E m \in InFlight : getUpdateEmailsCatch(m))
    /\ WF_vars(\E m \in InFlight : setUnreadThen(m))
    /\ WF_vars(\E m \in InFlight : setUnreadCatch(m))
    /\ WF_vars(\E m \in InFlight : \E t \in Later(now) : handleFormSubmitThen(m, t))
    /\ WF_vars(\E m \in InFlight : handleFormSubmitCatch(m))
    /\ WF_vars(\E m \in InFlight : handleItemDeleteThen(m))
    /\ WF_vars(\E m \in InFlight : handleItemDeleteCatch(m))
    /\ WF_vars(\E m \in InFlight : ServerGet(m))
    /\ WF_vars(\E m \in InFlight : ServerPut(m))
    /\ WF_vars(\E m \in InFlight : ServerPost(m))
    /\ WF_vars(\E m \in InFlight : ServerDelete(m))

LiveSpec == Init /\ [][LiveNext]_vars /\ Fairness

-----------------------------------------------------------------------------
(* Properties *)

\* The step is the component's handling of the response m.
Handled(m, kind, status) ==
    /\ m \in Responses(kind) /\ m.status = status
    /\ net' = Take(m)

\* The records of s whose id is not d, in the order they have in s.
RECURSIVE Without(_, _)
Without(s, d) ==
    IF s = <<>> THEN <<>>
    ELSE IF Head(s).id = d THEN Without(Tail(s), d)
    ELSE <<Head(s)>> \o Without(Tail(s), d)

\* The number of copies of the request r in flight.
Pending(r, bag) == IF BagIn(r, bag) THEN CopiesIn(r, bag) ELSE 0

\* C1: a poll response whose payload is deep-equal to the Collection causes no
\* setState and leaves the Collection as it is; any other payload becomes the
\* Collection.
PollReplacesOnlyOnChange ==
    [][\A m \in InFlight :
          Handled(m, "GET", "ok") =>
              IF m.payload = emails
              THEN emails' = emails /\ ev'.wrote = {}
              ELSE emails' = m.payload /\ ev'.wrote = {"emails"}]_vars

\* C1 witness: a payload identical to a non-empty Collection was processed and
\* nothing was written.
IdenticalPayloadSkipped ==
    /\ ev.op = "getUpdateEmails.then"
    /\ ev.wrote = {}
    /\ ev.payload = emails
    /\ emails # <<>>

\* C2: once componentWillUnmount has run, no step issues a GET /emails.
NoPollAfterUnmount ==
    [][mounted = "gone" =>
          /\ Pending(GetRequest, net') <= Pending(GetRequest, net)
          /\ \A i \in 1..Len(ev'.issued) : ev'.issued[i].kind # "GET"]_vars

\* C2 witness: the component is unmounted, the timer is cleared, and a request
\* could still be sent.
UnmountedWithBudget ==
    /\ mounted = "gone"
    /\ pollId = "cleared"
    /\ CanSend

\* C3: a successful Delete of d leaves no record with id d, keeps every other
\* record in its relative order, and clears a Selection that was d.
DeleteRemovesRecord ==
    [][\A m \in InFlight :
          Handled(m, "DELETE", "ok") =>
              /\ m.id \notin Ids(emails')
              /\ emails' = Without(emails, m.id)
              /\ (selectedEmailId = m.id => selectedEmailId' = NoSelection)]_vars

\* C3 witness: the selected record was deleted, another record is left, and the
\* Selection is none.
SelectedRecordDeleted ==
    /\ ev.op = "handleItemDelete.then"
    /\ ev.sel = ev.id
    /\ ev.id \notin Ids(emails)
    /\ emails # <<>>
    /\ selectedEmailId = NoSelection

\* C4: a successful Delete of d processed while the Selection is some other id
\* leaves the Selection as it is.
DeleteKeepsOtherSelection ==
    [][\A m \in InFlight :
          (Handled(m, "DELETE", "ok") /\ selectedEmailId # m.id) =>
              selectedEmailId' = selectedEmailId]_vars

\* C5: the form-submit step itself yields a Collection one record longer, with
\* the submitted record first.
SubmitPrependsAtOnce ==
    [][ev'.op = "handleFormSubmit" =>
          /\ Len(emails') = Len(emails) + 1
          /\ emails'[1].subject = ev'.subject]_vars

\* C5, amended: the form-submit step only sends the POST and leaves the
\* Collection as it is; the step that processes the POST's success response
\* yields a Collection one record longer than it found, with the submitted
\* record first.
SubmitPrependsOnSuccess ==
    [][/\ \A n \in Subjects :
            (net' = Send(PostRequest([subject |-> n]))) => emails' = emails
       /\ \A m \in InFlight :
            Handled(m, "POST", "ok") =>
                /\ Len(emails') = Len(emails) + 1
                /\ emails'[1].subject = m.subject]_vars

\* C5 witness: a success response to a POST was processed on a loaded Collection,
\* and the submitted record is first.
CreatedRecordFirst ==
    /\ ev.op = "handleFormSubmit.then"
    /\ Len(emails) = Len(InitialServer) + 1
    /\ emails[1].subject = ev.subject
    /\ emails[1].subject \in Subjects

\* C6: a successful Create turns the Collection into a provisional record
\* followed by the Collection as it was at response time; the provisional record
\* has the submitted fields, unread = true and id = the clock value read.
CreatePrependsProvisional ==
    [][\A m \in InFlight :
          Handled(m, "POST", "ok") =>
              /\ now' \in ClockValues /\ now' >= now
              /\ emails' = << [id |-> now', subject |-> m.subject,
                               date |-> now', unread |-> TRUE] >> \o emails]_vars

\* C6 witness: the provisional record was made at a later clock value than the
\* construction, in front of the records already there.
ProvisionalAtLaterTime ==
    /\ ev.op = "handleFormSubmit.then"
    /\ now > ClockStart
    /\ emails[1].id = now /\ emails[1].unread
    /\ Len(emails) > 1
    /\ emails[2].id \in Ids(InitialServer)

\* C7: Select(id) sets the Selection to id; it sends one PUT {unread: false}
\* for id and nothing else when id differs from the Selection it found, and
\* sends nothing when id is that Selection.
SelectSetsSelection ==
    [][ev'.op = "handleItemSelect" =>
          /\ selectedEmailId' = ev'.id
          /\ IF selectedEmailId # selectedEmailId'
             THEN /\ net' = net (+) SetToBag({PutRequest(selectedEmailId', FALSE)})
                  /\ ev'.issued = << PutRequest(selectedEmailId', FALSE) >>
             ELSE /\ net' = net
                  /\ ev'.issued = <<>>]_vars

\* C7 witness: the selected record was selected again and no request went out.
ReselectSendsNothing ==
    /\ ev.op = "handleItemSelect"
    /\ ev.sel = ev.id
    /\ ev.issued = <<>>
    /\ selectedEmailId = ev.id

\* C7 witness of the other case: another record was selected and one PUT went out.
SelectSendsMarkRead ==
    /\ ev.op = "handleItemSelect"
    /\ ev.sel # ev.id
    /\ ev.issued = << PutRequest(ev.id, FALSE) >>

Unread(s, id) == \E i \in 1..Len(s) : s[i].id = id /\ s[i].unread

\* C8: in every state, a Select of a record whose unread flag is true sends
\* exactly one PUT {unread: false} for it.
SelectUnreadAlwaysMarksRead ==
    [][(ev'.op = "handleItemSelect" /\ Unread(emails, ev'.id)) =>
          ev'.issued = << PutRequest(ev'.id, FALSE) >>]_vars

\* C8, amended: a Select of a record whose unread flag is true and whose id is
\* not the current Selection sends exactly one PUT {unread: false} for it; when
\* the success response to a PUT {unread: false} is processed, no record with
\* that id is unread.
SelectOtherUnreadMarksRead ==
    [][/\ (ev'.op = "handleItemSelect" /\ Unread(emails, ev'.id)
             /\ selectedEmailId # ev'.id) =>
            /\ ev'.issued = << PutRequest(ev'.id, FALSE) >>
            /\ net' = net (+) SetToBag({PutRequest(ev'.id, FALSE)})
       /\ \A m \in InFlight :
            (Handled(m, "PUT", "ok") /\ ~m.unread) => ~Unread(emails', m.id)]_vars

\* C8 witness: the mark-read of the selected record succeeded: the record was
\* unread in the backend's first collection and is read now.
SelectedRecordMarkedRead ==
    /\ ev.op = "setUnread.then"
    /\ ~ev.unread
    /\ ev.id = selectedEmailId
    /\ Unread(InitialServer, ev.id)
    /\ ev.id \in Ids(emails)
    /\ ~Unread(emails, ev.id)

\* The first position of s that holds a record with the given id.
FirstAt(s, id) ==
    CHOOSE i \in 1..Len(s) : s[i].id = id /\ \A j \in 1..(i - 1) : s[j].id # id

\* C9: the detail view is shown exactly when some record has the Selection as
\* its id, and then shows that record; with the Selection none, or an id that
\* no record has, it shows nothing.
DetailViewMatchesSelection ==
    /\ render.shown <=> (\E i \in 1..Len(emails) : emails[i].id = selectedEmailId)
    /\ render.shown => render.email = << emails[FirstAt(emails, selectedEmailId)] >>
    /\ (selectedEmailId = NoSelection \/ selectedEmailId \notin Ids(emails)) =>
           (~render.shown /\ render.email = <<>>)

\* C9 witness: the Selection is an id that a poll replacement removed, and the
\* detail view shows nothing.
DanglingSelection ==
    /\ selectedEmailId # NoSelection
    /\ selectedEmailId \notin Ids(emails)
    /\ emails # <<>>
    /\ ~render.shown

\* C9 witness of the other case: the selected record is not the first of the
\* list, and the detail view shows it.
SecondRecordShown ==
    /\ Len(emails) >= 2
    /\ selectedEmailId = emails[2].id
    /\ selectedEmailId # emails[1].id
    /\ render.shown /\ render.email = << emails[2] >>

\* C10: a failed poll fetch changes neither the Collection nor the Selection nor
\* the timer; while the component is mounted the timer runs, and every tick of
\* it sends a GET /emails.
FailedPollKeepsLoop ==
    /\ [][\A m \in InFlight :
            Handled(m, "GET", "error") =>
                /\ emails' = emails
                /\ selectedEmailId' = selectedEmailId
                /\ pollId' = pollId]_vars
    /\ [](mounted = "yes" => pollId = "active")
    /\ [][ev'.op = "pollTick" => net' = net (+) SetToBag({GetRequest})]_vars

\* C10 witness: a poll failed on a loaded Collection, the component is mounted
\* and its timer still runs.
PollFailedTimerRuns ==
    /\ ev.op = "getUpdateEmails.catch"
    /\ mounted = "yes"
    /\ pollId = "active"
    /\ emails # <<>>
    /\ CanSend

Mutations == {"PUT", "POST", "DELETE"}

UniqueIds ==
    \A i, j \in 1..Len(emails) : i # j => emails[i].id # emails[j].id

\* C13: the component starts with an empty Collection, no Selection and no
\* request; the mount sends one GET /emails and starts the timer; every tick of
\* the timer sends exactly one GET /emails; no other step sends one.
PollOnMountAndEveryTick ==
    /\ [](mounted = "no" =>
            emails = <<>> /\ selectedEmailId = NoSelection /\ net = EmptyBag /\ sent = 0)
    /\ [][mounted = "no" /\ mounted' = "yes" =>
            net' = net (+) SetToBag({GetRequest}) /\ pollId' = "active"]_vars
    /\ [][ev'.op = "pollTick" =>
            /\ mounted = "yes" /\ pollId = "active"
            /\ net' = net (+) SetToBag({GetRequest})]_vars
    /\ [][Pending(GetRequest, net') > Pending(GetRequest, net) =>
            /\ Pending(GetRequest, net') = Pending(GetRequest, net) + 1
            /\ (mounted = "no" /\ mounted' = "yes") \/ ev'.op = "pollTick"]_vars

\* C13 witness: the fetch of the mount and the fetch of one tick are in flight.
MountAndTickFetches ==
    /\ ev.op = "pollTick"
    /\ mounted = "yes"
    /\ sent = 2
    /\ Pending(GetRequest, net) = 2

\* C14: a poll response whose payload is older than the backend's collection
\* replaces the Collection all the same, whatever local update the Collection
\* holds, and leaves it different from the backend's collection.
StalePollOverwrites ==
    [][\A m \in InFlight :
          (Handled(m, "GET", "ok") /\ m.payload # server /\ m.payload # emails) =>
              /\ emails' = m.payload
              /\ emails' # server]_vars

\* C14 witness: the backend answered a poll and then removed record 1; the
\* Delete's success response was processed, and the poll's response after it
\* put record 1 back into the Collection.
StalePollUndoesDelete ==
    /\ ev.op = "getUpdateEmails.then"
    /\ ev.wrote = {"emails"}
    /\ net = EmptyBag
    /\ 1 \notin Ids(server)
    /\ 1 \in Ids(emails)

\* C14 witness for a Set-unread: record 2 is unread in the backend and was
\* unread locally, and the older poll response made it read again.
StalePollUndoesSetUnread ==
    /\ ev.op = "getUpdateEmails.then"
    /\ ev.wrote = {"emails"}
    /\ net = EmptyBag
    /\ Unread(server, 2)
    /\ 2 \in Ids(emails) /\ ~Unread(emails, 2)

\* C14 witness for a Create: the backend stored the new record, the provisional
\* record was prepended, and the older poll response removed it.
StalePollUndoesCreate ==
    /\ ev.op = "getUpdateEmails.then"
    /\ ev.wrote = {"emails"}
    /\ net = EmptyBag
    /\ Len(server) = Len(InitialServer) + 1
    /\ emails = InitialServer

Provisional(s) == {i \in 1..Len(s) : s[i].id \in ClockValues}

\* C15: the poll response processed on a Collection with a provisional record
\* leaves the Collection equal to the backend's collection, without a
\* provisional record.
NextPollBringsServerCopy ==
    [][\A m \in InFlight :
          (Handled(m, "GET", "ok") /\ Provisional(emails) # {}) =>
              /\ emails' = server
              /\ Provisional(emails') = {}]_vars

\* C15, amended: the poll response processed on a Collection with a provisional
\* record replaces the Collection with the response's payload, in which no
\* record has a provisional id; the Collection equals the backend's collection
\* exactly when the payload does.
NextPollReplacesProvisional ==
    [][\A m \in InFlight :
          (Handled(m, "GET", "ok") /\ Provisional(emails) # {}) =>
              /\ emails' = m.payload
              /\ Provisional(emails') = {}
              /\ (emails' = server <=> m.payload = server)]_vars

\* C15 witness: one poll and one Create were sent; the backend stored the record,
\* the provisional record was prepended, and the poll response processed last
\* replaced it with the backend's collection.
ProvisionalReplacedByServerCopy ==
    /\ ev.op = "getUpdateEmails.then"
    /\ ev.wrote = {"emails"}
    /\ sent = 2 /\ net = EmptyBag
    /\ Len(server) = Len(InitialServer) + 1
    /\ emails = server

\* C16: a successful Set-unread(id, value) keeps the length and the order of the
\* Collection; a record with that id gets unread = value and keeps its other
\* fields; every other record and the Selection are unchanged.
SetUnreadChangesOnlyFlag ==
    [][\A m \in InFlight :
          Handled(m, "PUT", "ok") =>
              /\ Len(emails') = Len(emails)
              /\ \A i \in 1..Len(emails) :
                    /\ emails'[i].id = emails[i].id
                    /\ emails'[i].subject = emails[i].subject
                    /\ emails'[i].date = emails[i].date
                    /\ emails'[i].unread =
                          IF emails[i].id = m.id THEN m.unread ELSE emails[i].unread
              /\ (m.id \notin Ids(emails) => emails' = emails)
              /\ selectedEmailId' = selectedEmailId]_vars

\* C16 witness: record 2, read at first, was marked unread while record 1 is
\* selected; one poll and one PUT were sent.
SecondRecordMarkedUnread ==
    /\ ev.op = "setUnread.then"
    /\ ev.id = 2 /\ ev.unread
    /\ Unread(emails, 2)
    /\ Len(emails) = 2
    /\ sent = 2

\* C16 witness of the other case: the success response of a Set-unread arrived
\* for an id that the Collection no longer holds.
SetUnreadOfAbsentRecord ==
    /\ ev.op = "setUnread.then"
    /\ ev.id \notin Ids(emails)
    /\ emails # <<>>

EventuallyConverges ==
    ( /\ [](mounted # "gone")
      /\ <>[][~(\E m \in InFlight : TransportError(m))]_vars )
    => <>[](emails = server)

\* C18 witness: with the budget of requests used up and nothing in flight, the
\* Collection differs from the backend's collection, so that only a later poll
\* can make them equal.
DivergedAfterLastMutation ==
    /\ mounted = "yes"
    /\ sent = MaxRequests
    /\ net = EmptyBag
    /\ emails # <<>>
    /\ emails # server

\* C19: the Selection changes only in a Select, a Close or the processing of a
\* successful Delete response; the processing of a poll response, of a Create
\* or Set-unread response and of any failure leaves it as it is; a Close sets
\* it to none, sends nothing and leaves the Collection as it is.
SelectionChangesOnlyByUser ==
    /\ [][selectedEmailId' # selectedEmailId =>
            \/ ev'.op \in {"handleItemSelect", "handleEmailViewClose"}
            \/ \E m \in InFlight : Handled(m, "DELETE", "ok")]_vars
    /\ [][\A m \in InFlight :
            (/\ net' = Take(m)
             /\ m.stage = "res"
             /\ ~(m.kind = "DELETE" /\ m.status = "ok")) =>
                selectedEmailId' = selectedEmailId]_vars
    /\ [][ev'.op = "handleEmailViewClose" =>
            /\ selectedEmailId' = NoSelection
            /\ net' = net /\ ev'.issued = <<>>
            /\ emails' = emails]_vars

\* C19 witness: a poll replacement removed the selected record and the Selection
\* is what it was.
PollRemovedSelectedRecord ==
    /\ ev.op = "getUpdateEmails.then"
    /\ ev.wrote = {"emails"}
    /\ ev.sel # NoSelection
    /\ selectedEmailId = ev.sel
    /\ selectedEmailId \notin Ids(emails)

\* C19 witness of the Close: the detail view was open and was closed.
DetailViewClosed ==
    /\ ev.op = "handleEmailViewClose"
    /\ ev.sel \in Ids(emails)
    /\ selectedEmailId = NoSelection

\* The ids a success handler can be run with: those of the Collection and those
\* of the requests in flight.
IdUniverse == Ids(emails) \cup {m.id : m \in {x \in InFlight : x.kind \in {"PUT", "DELETE"}}}

\* A Set-unread took effect in r: the records of s, with unread = u where the
\* id is a.
FlagSet(r, s, a, u) ==
    /\ Len(r) = Len(s)
    /\ \A i \in 1..Len(s) :
          /\ r[i].id = s[i].id /\ r[i].subject = s[i].subject /\ r[i].date = s[i].date
          /\ s[i].id = a => r[i].unread = u

\* C20: for two successful mutations on different ids, applied to the Collection
\* one after the other as their success handlers do, the resulting Collection is
\* the same in either order and shows both effects: set-unread with set-unread,
\* set-unread with delete, delete with delete.
MutationsCommute ==
    \A a, b \in IdUniverse : a # b =>
        /\ \A u, v \in BOOLEAN :
              LET ab == MapUnread(MapUnread(emails, a, u), b, v)
                  ba == MapUnread(MapUnread(emails, b, v), a, u)
              IN  /\ ab = ba
                  /\ FlagSet(ab, emails, a, u) /\ FlagSet(ab, emails, b, v)
        /\ \A u \in BOOLEAN :
              LET ab == FilterOut(MapUnread(emails, a, u), b)
                  ba == MapUnread(FilterOut(emails, b), a, u)
              IN  /\ ab = ba
                  /\ ab = Without(ba, b)
                  /\ FlagSet(ab, Without(emails, b), a, u)
        /\ LET ab == FilterOut(FilterOut(emails, a), b)
               ba == FilterOut(FilterOut(emails, b), a)
           IN  /\ ab = ba
               /\ ab = Without(Without(emails, a), b)

\* C20 witness: the success responses of a Set-unread and of a Delete on two
\* different records of the Collection are in flight together.
TwoSuccessesInFlight ==
    \E m1, m2 \in InFlight :
        /\ m1.kind = "PUT" /\ m2.kind = "DELETE"
        /\ m1.stage = "res" /\ m1.status = "ok"
        /\ m2.stage = "res" /\ m2.status = "ok"
        /\ m1.id # m2.id
        /\ {m1.id, m2.id} \subseteq Ids(emails)

=============================================================================
